---------------------------- MODULE Spec2Model ----------------------------
(***************************************************************************)
(* State-machine model of ebay_shipping.py: main() and the functions it    *)
(* calls (kill_chrome_using_profile, build_driver,                         *)
(* ensure_logged_in_or_pause, select_all_orders_on_page,                   *)
(* click_shipping_then_get_label, click_review_purchase).                  *)
(*                                                                         *)
(* Strings are sequences of one-character strings, so that lower() and the *)
(* substring test `in` are computed, not assumed.  The browser page, the   *)
(* operating system's process table and the operator at the console are    *)
(* the environment: each driver command may return or raise, each wait may *)
(* be satisfied or time out, each click may or may not toggle the          *)
(* checkbox.                                                               *)
(***************************************************************************)
EXTENDS Naturals, Sequences, FiniteSets

VARIABLES
    pc,           \* position of the program
    procs,        \* the processes psutil.process_iter enumerates
    idx,          \* position of the for loop of kill_chrome_using_profile
    session,      \* the new browser session: "none", "alive", "quit"
    landed,       \* driver.current_url after the latest driver.get
    navCount,     \* number of driver.get(URL) that returned
    checked,      \* the page's checkbox state
    inputEvents,  \* 'input' events dispatched on the checkbox by script
    changeEvents, \* 'change' events dispatched on the checkbox by script
    log,          \* <<operation, outcome>> of the step in progress, in order
    steps,        \* the workflow steps started, in order
    stepsDone,    \* the workflow steps that returned, in order
    timedOut,     \* the waits that raised TimeoutException
    exc,          \* the exception propagating out of the try block
    clean,        \* no redirect, no failed attempt, no unsatisfied wait so far
    fallbacks,    \* the fallback paths taken so far
    answered      \* the operator answered the final prompt

vars == <<pc, procs, idx, session, landed, navCount, checked,
          inputEvents, changeEvents, log, steps, stepsDone, timedOut, exc,
          clean, fallbacks, answered>>

---------------------------------------------------------------------------
(* Bounds *)

\* Largest number of processes in the enumeration.
MaxProcs == 2

---------------------------------------------------------------------------
(* Strings *)

\* Python's None where a string or a list is expected.
NoneVal == <<"<None>">>

\* `x or d`: None and the empty value are falsy.
OrElse(x, d) == IF x = NoneVal \/ x = <<>> THEN d ELSE x

LowerChar(c) ==
    CASE c = "C" -> "c"
      [] c = "S" -> "s"
      [] c = "I" -> "i"
      [] c = "L" -> "l"
      [] c = "P" -> "p"
      [] OTHER -> c

\* str.lower()
Lower(s) == [i \in 1..Len(s) |-> LowerChar(s[i])]

\* `sub in s`
Contains(sub, s) ==
    \E i \in 0..Len(s) :
        /\ i + Len(sub) <= Len(s)
        /\ SubSeq(s, i + 1, i + Len(sub)) = sub

RECURSIVE Join(_, _)
\* sep.join(list)
Join(sep, list) ==
    IF list = <<>> THEN <<>>
    ELSE IF Len(list) = 1 THEN list[1]
    ELSE list[1] \o sep \o Join(sep, Tail(list))

Chrome == <<"c", "h", "r", "o", "m", "e">>
UserDataDirFlag == <<"-", "-", "u", "=">>
Cwd == <<"/", "w">>

\* os.path.abspath: an absolute path is kept, a relative one is joined to cwd.
Abspath(p) == IF p # <<>> /\ p[1] = "/" THEN p ELSE Cwd \o <<"/">> \o p

\* Path(__file__).with_name("chrome_profile_selenium")
ProfileDir == <<"/", "w", "/", "p">>
\* A different directory whose path starts with the profile path.
ProfileDirOld == ProfileDir \o <<"2">>
\* An unrelated directory.
OtherDir == <<"/", "q">>

---------------------------------------------------------------------------
(* The process table *)

\* What build_driver passes to Chrome for a directory d.
UserDataDirArg(d) == UserDataDirFlag \o d

\* Ground truth: the process is a Chrome launched with --user-data-dir=<d>.
BoundTo(p, d) ==
    /\ Contains(Chrome, Lower(p.name))
    /\ \E i \in 1..Len(p.cmdline) : p.cmdline[i] = UserDataDirArg(d)

\* The processes the enumeration may hold: name, command line, whether
\* psutil could read the command line (AccessDenied gives None).
ProcTemplates ==
    { [name |-> Chrome, cmdline |-> <<Chrome, UserDataDirArg(ProfileDir)>>,
       readable |-> TRUE],
      [name |-> <<"C", "h", "r", "o", "m", "e">>,
       cmdline |-> <<Chrome, UserDataDirArg(ProfileDirOld)>>,
       readable |-> TRUE],
      [name |-> Chrome,
       cmdline |-> <<Chrome, UserDataDirArg(OtherDir), <<"-", "x", "=">> \o ProfileDir>>,
       readable |-> TRUE],
      [name |-> Chrome, cmdline |-> <<Chrome, UserDataDirArg(OtherDir)>>,
       readable |-> TRUE],
      [name |-> <<"p", "y">>, cmdline |-> <<<<"p", "y">>, ProfileDir>>,
       readable |-> TRUE],
      [name |-> Chrome, cmdline |-> <<Chrome, UserDataDirArg(ProfileDir)>>,
       readable |-> FALSE] }

\* outcome: what the loop did to the process.
ProcStates ==
    { [name |-> t.name, cmdline |-> t.cmdline, readable |-> t.readable,
       outcome |-> "none"] : t \in ProcTemplates }

ProcTables == UNION { [1..n -> ProcStates] : n \in 0..MaxProcs }

\* The process runs: the loop did not kill it and did not find it gone.
Alive(p) == p.outcome \in {"none", "AccessDenied"}

\* proc.info.get("name"), proc.info.get("cmdline")
InfoName(p) == p.name
InfoCmdline(p) == IF p.readable THEN p.cmdline ELSE NoneVal

\* Lines 54-64: the loop body's decision to kill.
MatchesProfile(p, profile_dir) ==
    LET profile_dir_abs == Abspath(profile_dir)
        name == Lower(OrElse(InfoName(p), <<>>))
        cmdline_list == OrElse(InfoCmdline(p), <<>>)
    IN  /\ Contains(Chrome, name)
        /\ cmdline_list # <<>>
        /\ Contains(profile_dir_abs, Join(<<" ">>, cmdline_list))

\* What proc.kill() can do.
KillOutcomes == {"killed", "NoSuchProcess", "AccessDenied"}


---------------------------------------------------------------------------
(* The page and the console *)

Signin == <<"s", "i", "g", "n", "i", "n">>
Login == <<"l", "o", "g", "i", "n">>

\* The order page, a sign-in redirect and a login redirect in mixed case.
UrlOrders == <<"/", "o", "r", "d">>
UrlSignin == <<"/", "s", "i", "g", "n", "i", "n">>
UrlLogIn == <<"/", "L", "o", "g", "I", "n">>
LandedUrls == {UrlOrders, UrlSignin, UrlLogIn}

\* Faulty variant: the test looks for "login" only.
IsAuthUrl_LoginOnly(cur) == Contains(Login, cur)

\* Faulty variant: the operator is asked after every first landing.
IsAuthUrl_Always(cur) == TRUE

\* Line 176: the test of ensure_logged_in_or_pause on the lowered URL.
IsAuthUrl(cur) == Contains(Signin, cur) \/ Contains(Login, cur)

\* Line 175: cur = (driver.current_url or "").lower()
CurrentUrlLowered(url) == Lower(OrElse(url, <<>>))

\* The page at url is an authentication page (a fact of the site, whatever
\* the program tests).
AuthPage(url) == Contains(Signin, Lower(url)) \/ Contains(Login, Lower(url))

\* Line 216 prints the landed URL: what the operator reads there.
UrlKind(url) ==
    IF Contains(Signin, url) THEN "signin"
    ELSE IF AuthPage(url) THEN "login"
    ELSE "orders"

\* An authentication page holds no bulk checkbox.
ShowsOrders(url) == ~AuthPage(url)

\* Faulty variant: the early return is missing.
AlreadySelected_Never(selected) == FALSE

\* Lines 84-85: `if cb.is_selected(): return`.
AlreadySelected(selected) == selected

\* Faulty variant: the script dispatches 'change' only.
js_force_check_NoInputEvent(val) == [checked |-> val, input |-> 0, change |-> 1]

\* Lines 33-35: the script of js_force_check: the state it assigns and the
\* number of 'input' and 'change' events it dispatches.
js_force_check(val) == [checked |-> val, input |-> 1, change |-> 1]

\* Faulty variant: the programmatic click follows every click.
NeedsJsClick_Always(clickRaised) == TRUE

\* Faulty variant: `except Exception: pass`, no programmatic click.
NeedsJsClick_Never(clickRaised) == FALSE

\* Lines 130-133, 153-156, 168-171: `except Exception: js_click(...)`.
NeedsJsClick(clickRaised) == clickRaised

\* The waits whose TimeoutException no handler catches.
FatalWaits == {"checkbox_present", "checkbox_enabled", "trigger_clickable",
               "item_clickable", "confirm_clickable"}

\* Faulty variant: no handler around the expanded-state wait.
OnWaitTimeout_NoHandler(w) == "finally"

\* Faulty variant: a handler swallows the timeout of the confirm control's wait.
OnWaitTimeout_ConfirmSwallowed(w) ==
    IF w = "expanded" THEN "menu_reacquire"
    ELSE IF w = "confirm_clickable" THEN "conf_scroll"
    ELSE "finally"

\* Faulty variant: the required waits have no timeout; one whose condition
\* never holds blocks for ever.
OnWaitTimeout_Unbounded(w) ==
    IF w = "expanded" THEN "menu_reacquire" ELSE "waiting"

\* Where a TimeoutException of wait w leads: lines 137-143 catch the one of
\* the expanded-state wait, every other one leaves the try block of main.
OnWaitTimeout(w) == IF w = "expanded" THEN "menu_reacquire" ELSE "finally"

\* Faulty variant: the session is closed without waiting for the final input.
TryBlockLeft_BeforeInput == pc \in {"finally", "final_input"}

\* Line 237: the finally block runs when the try block is left.
TryBlockLeft == pc = "finally"

StepNames == <<"navigate", "bulk-select", "menu", "confirm", "terminate">>

---------------------------------------------------------------------------
(* Outcomes of a driver command; l is the log the command is appended to *)

\* The command returns and the program goes on at `next`.
Returns(l, op, next) ==
    /\ log' = Append(l, <<op, "ok">>)
    /\ pc' = next
    /\ UNCHANGED <<exc, clean>>

\* The command raises outside every handler: main's try block is left.
Raises(l, op) ==
    /\ log' = Append(l, <<op, "raised">>)
    /\ pc' = "finally"
    /\ exc' = "WebDriverException"
    /\ clean' = FALSE

\* Faulty variant: the try block has no except clause; the exception
\* propagates.
Swallowed_Propagates(l, op, next) == Raises(l, op)

\* The command raises inside `try: ... except Exception: pass`.
Swallowed(l, op, next) ==
    /\ log' = Append(l, <<op, "raised">>)
    /\ pc' = next
    /\ clean' = FALSE
    /\ UNCHANGED exc

\* wait.until(...) of wait w gives up.
TimesOut(l, w) ==
    /\ log' = Append(l, <<w, "timeout">>)
    /\ timedOut' = timedOut \cup {w}
    /\ clean' = FALSE
    /\ pc' = OnWaitTimeout(w)
    /\ exc' = IF OnWaitTimeout(w) = "finally" THEN "TimeoutException" ELSE exc

\* element.click() with `except Exception: js_click(...)`: the click
\* returns and the program goes on at `next`, or raises and the
\* programmatic click at `fallback` follows.
Clicks(op, next, fallback) ==
    \E raised \in BOOLEAN :
        /\ log' = Append(log, <<op, IF raised THEN "raised" ELSE "ok">>)
        /\ pc' = IF NeedsJsClick(raised) THEN fallback ELSE next
        /\ clean' = (clean /\ ~raised)
        /\ UNCHANGED exc

\* driver.get(URL) loads a page.
PageLoad ==
    \E u \in LandedUrls :
        /\ landed' = u
        /\ checked' \in (IF ShowsOrders(u) THEN BOOLEAN ELSE {FALSE})
        /\ navCount' = navCount + 1

\* A click reaches the checkbox (and toggles it) or is intercepted.
ClickEffect == checked' \in {checked, ~checked}

\* The re-query of lines 92, 101, 110 reads the checkbox state.
Selected == <<"is_selected", "selected">>
Unselected == <<"is_selected", "unselected">>

procV == <<procs, idx>>
navV == <<landed, navCount>>
eventV == <<inputEvents, changeEvents>>
stepV == <<steps, stepsDone>>

---------------------------------------------------------------------------
(* Initial state *)

Init ==
    /\ pc = "start"
    /\ procs \in ProcTables
    /\ idx = 1
    /\ session = "none"
    /\ landed = NoneVal
    /\ navCount = 0
    /\ checked = FALSE
    /\ inputEvents = 0
    /\ changeEvents = 0
    /\ log = <<>>
    /\ steps = <<>>
    /\ stepsDone = <<>>
    /\ timedOut = {}
    /\ exc = "none"
    /\ clean = TRUE
    /\ fallbacks = {}
    /\ answered = FALSE

---------------------------------------------------------------------------
(* main, before the try block *)

\* Lines 205-209: the profile directory exists; the loop starts.
main_start ==
    /\ pc = "start"
    /\ pc' = "kill"
    /\ UNCHANGED <<procV, session, navV, checked, eventV, log, stepV,
                   timedOut, exc, clean, fallbacks, answered>>

\* Faulty variant: lines 68-69 missing; NoSuchProcess or AccessDenied raised
\* by proc.kill() leaves the loop, the function and main.
kill_chrome_using_profile_NoHandler ==
    /\ pc = "kill"
    /\ idx <= Len(procs)
    /\ IF MatchesProfile(procs[idx], ProfileDir)
       THEN \E o \in KillOutcomes :
                /\ procs' = [procs EXCEPT ![idx].outcome = o]
                /\ pc' = IF o = "killed" THEN pc ELSE "crashed"
                /\ exc' = IF o = "killed" THEN exc ELSE o
       ELSE UNCHANGED <<procs, pc, exc>>
    /\ idx' = idx + 1
    /\ UNCHANGED <<session, navV, checked, eventV, log, stepV, timedOut,
                   clean, fallbacks, answered>>

\* Lines 52-69: one iteration of the loop. NoSuchProcess and AccessDenied
\* raised by proc.kill() are caught and the loop goes on.
kill_chrome_using_profile ==
    /\ pc = "kill"
    /\ idx <= Len(procs)
    /\ IF MatchesProfile(procs[idx], ProfileDir)
       THEN \E o \in KillOutcomes :
                procs' = [procs EXCEPT ![idx].outcome = o]
       ELSE UNCHANGED procs
    /\ idx' = idx + 1
    /\ UNCHANGED <<pc, session, navV, checked, eventV, log, stepV,
                   timedOut, exc, clean, fallbacks, answered>>

\* Lines 71-72: the loop is over; sleep; return to main.
kill_chrome_return ==
    /\ pc = "kill"
    /\ idx > Len(procs)
    /\ pc' = "build"
    /\ UNCHANGED <<procV, session, navV, checked, eventV, log, stepV,
                   timedOut, exc, clean, fallbacks, answered>>

\* Line 198: webdriver.Chrome(options=options) starts the session, or
\* raises and no session exists.
build_driver ==
    /\ pc = "build"
    /\ \/ session' = "alive" /\ pc' = "resize" /\ UNCHANGED <<exc, clean>>
       \/ /\ UNCHANGED session
          /\ pc' = "crashed"
          /\ exc' = "WebDriverException"
          /\ clean' = FALSE
    /\ UNCHANGED <<procV, navV, checked, eventV, log, stepV, timedOut,
                   fallbacks, answered>>

\* Line 199: driver.set_window_size(1400, 900), outside the try block of
\* main: when it raises, the exception leaves main.
build_driver_resize ==
    /\ pc = "resize"
    /\ \/ /\ log' = Append(log, <<"set_window_size", "ok">>)
          /\ pc' = "nav1"
          /\ UNCHANGED <<exc, clean>>
       \/ /\ log' = Append(log, <<"set_window_size", "raised">>)
          /\ pc' = "crashed"
          /\ exc' = "WebDriverException"
          /\ clean' = FALSE
    /\ UNCHANGED <<procV, session, navV, checked, eventV, stepV, timedOut,
                   fallbacks, answered>>

---------------------------------------------------------------------------
(* Step 1: navigate *)

\* Line 215: driver.get(URL)
main_get ==
    /\ pc = "nav1"
    /\ steps' = Append(steps, "navigate")
    /\ \/ /\ PageLoad
          /\ Returns(<<>>, "get", "print_landed")
       \/ Raises(<<>>, "get") /\ UNCHANGED <<navV, checked>>
    /\ UNCHANGED <<procV, session, eventV, stepsDone, timedOut, fallbacks,
                   answered>>

\* Lines 216-217: print driver.current_url and driver.title
main_print_landed ==
    /\ pc = "print_landed"
    /\ \/ /\ log' = Append(log, <<"print_url", UrlKind(landed)>>)
          /\ pc' = "ensure"
          /\ UNCHANGED <<exc, clean>>
       \/ Raises(log, "print_url")
    /\ UNCHANGED <<procV, session, navV, checked, eventV, stepV, timedOut,
                   fallbacks, answered>>

\* Lines 175-177: read the URL; on an authentication page print the
\* request and block in input().
ensure_logged_in_or_pause ==
    /\ pc = "ensure"
    /\ \/ /\ IsAuthUrl(CurrentUrlLowered(landed))
          /\ log' = Append(log, <<"current_url", "ok">>)
          /\ pc' = "login_input"
          /\ clean' = FALSE
          /\ UNCHANGED exc
       \/ /\ ~IsAuthUrl(CurrentUrlLowered(landed))
          /\ Returns(log, "current_url", "nav2")
       \/ Raises(log, "current_url")
    /\ UNCHANGED <<procV, session, navV, checked, eventV, stepV, timedOut,
                   fallbacks, answered>>

\* Line 178: input() returns when the operator presses Enter.
login_input ==
    /\ pc = "login_input"
    /\ log' = Append(log, <<"input", "ok">>)
    /\ pc' = "nav2"
    /\ UNCHANGED <<procV, session, navV, checked, eventV, stepV, timedOut,
                   exc, clean, fallbacks, answered>>

\* Line 221: driver.get(URL), whatever the first landing was.
main_get_again ==
    /\ pc = "nav2"
    /\ \/ /\ PageLoad
          /\ Returns(log, "get", "sel_wait_present")
          /\ stepsDone' = Append(stepsDone, "navigate")
       \/ Raises(log, "get") /\ UNCHANGED <<landed, navCount, checked, stepsDone>>
    /\ UNCHANGED <<procV, session, eventV, steps, timedOut, fallbacks,
                   answered>>

---------------------------------------------------------------------------
(* Step 2: select_all_orders_on_page *)

\* Line 78: wait until the checkbox is present.
select_wait_present ==
    /\ pc = "sel_wait_present"
    /\ steps' = Append(steps, "bulk-select")
    /\ \/ /\ ShowsOrders(landed)
          /\ Returns(<<>>, "checkbox_present", "sel_wait_enabled")
          /\ UNCHANGED timedOut
       \/ TimesOut(<<>>, "checkbox_present")
       \/ Raises(<<>>, "checkbox_present") /\ UNCHANGED timedOut
    /\ UNCHANGED <<procV, session, navV, checked, eventV, stepsDone,
                   fallbacks, answered>>

\* Line 79: wait until the checkbox is enabled.
select_wait_enabled ==
    /\ pc = "sel_wait_enabled"
    /\ \/ Returns(log, "checkbox_enabled", "sel_find") /\ UNCHANGED timedOut
       \/ TimesOut(log, "checkbox_enabled")
       \/ Raises(log, "checkbox_enabled") /\ UNCHANGED timedOut
    /\ UNCHANGED <<procV, session, navV, checked, eventV, stepV, fallbacks,
                   answered>>

\* Lines 80-82: find the checkbox and scroll it into view.
select_find_scroll ==
    /\ pc = "sel_find"
    /\ \/ Returns(log, "find_scroll", "sel_is_selected")
       \/ Raises(log, "find_scroll")
    /\ UNCHANGED <<procV, session, navV, checked, eventV, stepV, timedOut,
                   fallbacks, answered>>

\* Lines 84-85: return at once when the checkbox is already selected.
select_is_selected ==
    /\ pc = "sel_is_selected"
    /\ \/ /\ AlreadySelected(checked)
          /\ Returns(log, "inspect", "print_state")
          /\ stepsDone' = Append(stepsDone, "bulk-select")
       \/ /\ ~AlreadySelected(checked)
          /\ Returns(log, "inspect", "sel_labels")
          /\ UNCHANGED stepsDone
       \/ Raises(log, "inspect") /\ UNCHANGED stepsDone
    /\ UNCHANGED <<procV, session, navV, checked, eventV, steps, timedOut,
                   fallbacks, answered>>

\* Lines 88-89: look for a label of the checkbox.
select_find_labels ==
    /\ pc = "sel_labels"
    /\ \/ Returns(log, "find_labels", "sel_label_click")
       \/ Returns(log, "find_no_label", "sel_input_find")
       \/ Raises(log, "find_labels")
    /\ UNCHANGED <<procV, session, navV, checked, eventV, stepV, timedOut,
                   fallbacks, answered>>

\* Line 91: pointer click on the label, inside try/except.
select_label_click ==
    /\ pc = "sel_label_click"
    /\ \/ ClickEffect /\ Returns(log, "label_click", "sel_label_verify")
       \/ Swallowed(log, "label_click", "sel_input_find") /\ UNCHANGED checked
    /\ UNCHANGED <<procV, session, navV, eventV, stepV, timedOut, fallbacks,
                   answered>>

\* Lines 92-95: re-query the checkbox; return when it is selected.
select_label_verify ==
    /\ pc = "sel_label_verify"
    /\ \/ /\ checked
          /\ log' = Append(log, Selected)
          /\ pc' = "print_state"
          /\ stepsDone' = Append(stepsDone, "bulk-select")
          /\ UNCHANGED <<exc, clean>>
       \/ /\ ~checked
          /\ log' = Append(log, Unselected)
          /\ pc' = "sel_input_find"
          /\ clean' = FALSE
          /\ UNCHANGED <<exc, stepsDone>>
       \/ Swallowed(log, "is_selected", "sel_input_find") /\ UNCHANGED stepsDone
    /\ UNCHANGED <<procV, session, navV, checked, eventV, steps, timedOut,
                   fallbacks, answered>>

\* Line 99: find the checkbox, inside try/except.
select_input_find ==
    /\ pc = "sel_input_find"
    /\ \/ Returns(log, "find", "sel_input_click")
       \/ Swallowed(log, "find", "sel_js_find")
    /\ UNCHANGED <<procV, session, navV, checked, eventV, stepV, timedOut,
                   fallbacks, answered>>

\* Line 100: pointer click on the checkbox.
select_input_click ==
    /\ pc = "sel_input_click"
    /\ \/ ClickEffect /\ Returns(log, "pointer_click", "sel_input_verify")
       \/ Swallowed(log, "pointer_click", "sel_js_find") /\ UNCHANGED checked
    /\ UNCHANGED <<procV, session, navV, eventV, stepV, timedOut, fallbacks,
                   answered>>

\* Faulty variant: lines 101-102 without the return; the cascade goes on
\* after a verified success.
select_input_verify_NeverReturns ==
    /\ pc = "sel_input_verify"
    /\ log' = Append(log, IF checked THEN Selected ELSE Unselected)
    /\ pc' = "sel_js_find"
    /\ clean' = FALSE
    /\ UNCHANGED <<procV, session, navV, checked, eventV, stepV, timedOut,
                   exc, fallbacks, answered>>

\* Lines 101-104: re-query the checkbox; return when it is selected.
select_input_verify ==
    /\ pc = "sel_input_verify"
    /\ \/ /\ checked
          /\ log' = Append(log, Selected)
          /\ pc' = "print_state"
          /\ stepsDone' = Append(stepsDone, "bulk-select")
          /\ UNCHANGED <<exc, clean>>
       \/ /\ ~checked
          /\ log' = Append(log, Unselected)
          /\ pc' = "sel_js_find"
          /\ clean' = FALSE
          /\ UNCHANGED <<exc, stepsDone>>
       \/ Swallowed(log, "is_selected", "sel_js_find") /\ UNCHANGED stepsDone
    /\ UNCHANGED <<procV, session, navV, checked, eventV, steps, timedOut,
                   fallbacks, answered>>

\* Line 108: find the checkbox, inside try/except.
select_js_find ==
    /\ pc = "sel_js_find"
    /\ \/ Returns(log, "find", "sel_js_click")
       \/ Swallowed(log, "find", "sel_force_find")
    /\ UNCHANGED <<procV, session, navV, checked, eventV, stepV, timedOut,
                   fallbacks, answered>>

\* Lines 23-24, 109: js_click(driver, cb)
select_js_click ==
    /\ pc = "sel_js_click"
    /\ fallbacks' = fallbacks \cup {"js_click"}
    /\ \/ ClickEffect /\ Returns(log, "js_click", "sel_js_verify")
       \/ Swallowed(log, "js_click", "sel_force_find") /\ UNCHANGED checked
    /\ UNCHANGED <<procV, session, navV, eventV, stepV, timedOut, answered>>

\* Lines 110-113: re-query the checkbox; return when it is selected.
select_js_verify ==
    /\ pc = "sel_js_verify"
    /\ \/ /\ checked
          /\ log' = Append(log, Selected)
          /\ pc' = "print_state"
          /\ stepsDone' = Append(stepsDone, "bulk-select")
          /\ UNCHANGED <<exc, clean>>
       \/ /\ ~checked
          /\ log' = Append(log, Unselected)
          /\ pc' = "sel_force_find"
          /\ clean' = FALSE
          /\ UNCHANGED <<exc, stepsDone>>
       \/ Swallowed(log, "is_selected", "sel_force_find") /\ UNCHANGED stepsDone
    /\ UNCHANGED <<procV, session, navV, checked, eventV, steps, timedOut,
                   fallbacks, answered>>

\* Line 116: find the checkbox, outside every handler.
select_force_find ==
    /\ pc = "sel_force_find"
    /\ \/ Returns(log, "find", "sel_force")
       \/ Raises(log, "find")
    /\ UNCHANGED <<procV, session, navV, checked, eventV, stepV, timedOut,
                   fallbacks, answered>>

\* Line 117: js_force_check(driver, cb, True); the function returns with no
\* verification.
select_force_check ==
    /\ pc = "sel_force"
    /\ fallbacks' = fallbacks \cup {"force_check"}
    /\ \/ /\ checked' = js_force_check(TRUE).checked
          /\ inputEvents' = inputEvents + js_force_check(TRUE).input
          /\ changeEvents' = changeEvents + js_force_check(TRUE).change
          /\ Returns(log, "force_check", "print_state")
          /\ stepsDone' = Append(stepsDone, "bulk-select")
       \/ Raises(log, "force_check") /\ UNCHANGED <<checked, eventV, stepsDone>>
    /\ UNCHANGED <<procV, session, navV, steps, timedOut, answered>>

\* Line 225: print the checkbox state.
main_print_state ==
    /\ pc = "print_state"
    /\ \/ Returns(log, "print_state", "menu_wait_trigger")
       \/ Raises(log, "print_state")
    /\ UNCHANGED <<procV, session, navV, checked, eventV, stepV, timedOut,
                   fallbacks, answered>>

---------------------------------------------------------------------------
(* Step 3: click_shipping_then_get_label *)

\* Lines 124-127: wait until the Shipping button is clickable.
menu_wait_trigger ==
    /\ pc = "menu_wait_trigger"
    /\ steps' = Append(steps, "menu")
    /\ \/ Returns(<<>>, "trigger_clickable", "menu_scroll") /\ UNCHANGED timedOut
       \/ TimesOut(<<>>, "trigger_clickable")
       \/ Raises(<<>>, "trigger_clickable") /\ UNCHANGED timedOut
    /\ UNCHANGED <<procV, session, navV, checked, eventV, stepsDone,
                   fallbacks, answered>>

\* Line 128: scroll the button into view.
menu_scroll ==
    /\ pc = "menu_scroll"
    /\ \/ Returns(log, "scroll", "menu_click")
       \/ Raises(log, "scroll")
    /\ UNCHANGED <<procV, session, navV, checked, eventV, stepV, timedOut,
                   fallbacks, answered>>

\* Lines 130-132: shipping_btn.click()
menu_click ==
    /\ pc = "menu_click"
    /\ Clicks("trigger_click", "menu_wait_expanded", "menu_js_click")
    /\ UNCHANGED <<procV, session, navV, checked, eventV, stepV, timedOut,
                   fallbacks, answered>>

\* Line 133: js_click(driver, shipping_btn), in the except clause.
menu_js_click ==
    /\ pc = "menu_js_click"
    /\ fallbacks' = fallbacks \cup {"js_click"}
    /\ \/ Returns(log, "trigger_js_click", "menu_wait_expanded")
       \/ Raises(log, "trigger_js_click")
    /\ UNCHANGED <<procV, session, navV, checked, eventV, stepV, timedOut,
                   answered>>

\* Lines 137-139: wait until aria-expanded is "true"; a TimeoutException
\* is caught.
menu_wait_expanded ==
    /\ pc = "menu_wait_expanded"
    /\ \/ Returns(log, "expanded", "item_wait") /\ UNCHANGED timedOut
       \/ TimesOut(log, "expanded")
       \/ Raises(log, "expanded") /\ UNCHANGED timedOut
    /\ UNCHANGED <<procV, session, navV, checked, eventV, stepV, fallbacks,
                   answered>>

\* Lines 140-143: look the button up again.
menu_reacquire ==
    /\ pc = "menu_reacquire"
    /\ fallbacks' = fallbacks \cup {"reacquire"}
    /\ \/ Returns(log, "find_trigger", "item_wait")
       \/ Raises(log, "find_trigger")
    /\ UNCHANGED <<procV, session, navV, checked, eventV, stepV, timedOut,
                   answered>>

\* Lines 146-150: wait until the menu item is clickable.
item_wait ==
    /\ pc = "item_wait"
    /\ \/ Returns(log, "item_clickable", "item_scroll") /\ UNCHANGED timedOut
       \/ TimesOut(log, "item_clickable")
       \/ Raises(log, "item_clickable") /\ UNCHANGED timedOut
    /\ UNCHANGED <<procV, session, navV, checked, eventV, stepV, fallbacks,
                   answered>>

\* Line 151: scroll the item into view.
item_scroll ==
    /\ pc = "item_scroll"
    /\ \/ Returns(log, "scroll", "item_click")
       \/ Raises(log, "scroll")
    /\ UNCHANGED <<procV, session, navV, checked, eventV, stepV, timedOut,
                   fallbacks, answered>>

\* Lines 153-155: item_clickable.click(); the function returns when the
\* click does.
item_click ==
    /\ pc = "item_click"
    /\ Clicks("item_click", "conf_wait", "item_js_click")
    /\ stepsDone' = IF pc' = "conf_wait" THEN Append(stepsDone, "menu")
                    ELSE stepsDone
    /\ UNCHANGED <<procV, session, navV, checked, eventV, steps, timedOut,
                   fallbacks, answered>>

\* Line 156: js_click(driver, item_clickable), in the except clause.
item_js_click ==
    /\ pc = "item_js_click"
    /\ fallbacks' = fallbacks \cup {"js_click"}
    /\ \/ /\ Returns(log, "item_js_click", "conf_wait")
          /\ stepsDone' = Append(stepsDone, "menu")
       \/ Raises(log, "item_js_click") /\ UNCHANGED stepsDone
    /\ UNCHANGED <<procV, session, navV, checked, eventV, steps, timedOut,
                   answered>>

---------------------------------------------------------------------------
(* Step 4: click_review_purchase *)

\* Lines 162-165: wait until the Review purchase button is clickable.
review_wait ==
    /\ pc = "conf_wait"
    /\ steps' = Append(steps, "confirm")
    /\ \/ Returns(<<>>, "confirm_clickable", "conf_scroll") /\ UNCHANGED timedOut
       \/ TimesOut(<<>>, "confirm_clickable")
       \/ Raises(<<>>, "confirm_clickable") /\ UNCHANGED timedOut
    /\ UNCHANGED <<procV, session, navV, checked, eventV, stepsDone,
                   fallbacks, answered>>

\* Line 166: scroll the button into view.
review_scroll ==
    /\ pc = "conf_scroll"
    /\ \/ Returns(log, "scroll", "conf_click")
       \/ Raises(log, "scroll")
    /\ UNCHANGED <<procV, session, navV, checked, eventV, stepV, timedOut,
                   fallbacks, answered>>

\* Lines 168-170: btn.click(); the function returns when the click does.
review_click ==
    /\ pc = "conf_click"
    /\ Clicks("confirm_click", "final_prompt", "conf_js_click")
    /\ stepsDone' = IF pc' = "final_prompt" THEN Append(stepsDone, "confirm")
                    ELSE stepsDone
    /\ UNCHANGED <<procV, session, navV, checked, eventV, steps, timedOut,
                   fallbacks, answered>>

\* Line 171: js_click(driver, btn), in the except clause.
review_js_click ==
    /\ pc = "conf_js_click"
    /\ fallbacks' = fallbacks \cup {"js_click"}
    /\ \/ /\ Returns(log, "confirm_js_click", "final_prompt")
          /\ stepsDone' = Append(stepsDone, "confirm")
       \/ Raises(log, "confirm_js_click") /\ UNCHANGED stepsDone
    /\ UNCHANGED <<procV, session, navV, checked, eventV, steps, timedOut,
                   answered>>

---------------------------------------------------------------------------
(* Step 5: terminate *)

\* Line 235: input("Done. Press Enter to quit...") shows the prompt and
\* blocks.
final_prompt ==
    /\ pc = "final_prompt"
    /\ steps' = Append(steps, "terminate")
    /\ log' = <<<<"prompt", "ok">>>>
    /\ pc' = "final_input"
    /\ UNCHANGED <<procV, session, navV, checked, eventV, stepsDone,
                   timedOut, exc, clean, fallbacks, answered>>

\* Line 235: the operator presses Enter; the try block ends.
final_input ==
    /\ pc = "final_input"
    /\ answered' = TRUE
    /\ log' = Append(log, <<"input", "ok">>)
    /\ pc' = "finally"
    /\ UNCHANGED <<procV, session, navV, checked, eventV, stepV, timedOut,
                   exc, clean, fallbacks>>

\* Lines 237-238: finally: driver.quit(); main ends (with the exception, if
\* one is propagating).
main_quit ==
    /\ TryBlockLeft
    /\ session = "alive"
    /\ session' = "quit"
    /\ pc' = "done"
    /\ UNCHANGED <<procV, navV, checked, eventV, log, stepV, timedOut, exc,
                   clean, fallbacks, answered>>

---------------------------------------------------------------------------
(* Specification *)

Next ==
    \/ main_start
    \/ kill_chrome_using_profile
    \/ kill_chrome_return
    \/ build_driver
    \/ build_driver_resize
    \/ main_get
    \/ main_print_landed
    \/ ensure_logged_in_or_pause
    \/ login_input
    \/ main_get_again
    \/ select_wait_present
    \/ select_wait_enabled
    \/ select_find_scroll
    \/ select_is_selected
    \/ select_find_labels
    \/ select_label_click
    \/ select_label_verify
    \/ select_input_find
    \/ select_input_click
    \/ select_input_verify
    \/ select_js_find
    \/ select_js_click
    \/ select_js_verify
    \/ select_force_find
    \/ select_force_check
    \/ main_print_state
    \/ menu_wait_trigger
    \/ menu_scroll
    \/ menu_click
    \/ menu_js_click
    \/ menu_wait_expanded
    \/ menu_reacquire
    \/ item_wait
    \/ item_scroll
    \/ item_click
    \/ item_js_click
    \/ review_wait
    \/ review_scroll
    \/ review_click
    \/ review_js_click
    \/ final_prompt
    \/ final_input
    \/ main_quit

Spec == Init /\ [][Next]_vars

\* The enumeration matters to termination through its length and through
\* whether an iteration calls proc.kill(): a Chrome of the profile and a
\* Chrome of another directory stand for the processes of their kind.
PlainChromes ==
    { p \in ProcStates :
        /\ p.readable
        /\ p.name = Chrome
        /\ p.cmdline \in {<<Chrome, UserDataDirArg(ProfileDir)>>,
                           <<Chrome, UserDataDirArg(OtherDir)>>} }

FairInit == Init /\ \A i \in 1..Len(procs) : procs[i] \in PlainChromes

\* main is one sequential thread: as long as a statement is left it is
\* executed, given that every driver command returns or raises and that the
\* operator answers every input().
FairSpec == FairInit /\ [][Next]_vars /\ WF_vars(Next)

---------------------------------------------------------------------------
(* Properties *)

Range(seq) == {seq[i] : i \in 1..Len(seq)}

LastOf(seq) == seq[Len(seq)]

\* C1: once a browser session has been created, it is quit before the
\* program ends, on every exit path (also when an operation of the
\* session's set-up raises), and nothing follows the quit.
C1_SessionQuitOnEveryExit ==
    /\ (pc \in {"done", "crashed"} /\ session # "none") => session = "quit"
    /\ session = "quit" => pc = "done"

\* C2: while the new session is alive, no prior Chrome bound to the same
\* profile directory is alive, whatever the enumeration held and whatever
\* inspecting or killing each process gave.
C2_ProfileExclusivity ==
    session = "alive" =>
        \A i \in 1..Len(procs) :
            ~(BoundTo(procs[i], ProfileDir) /\ Alive(procs[i]))

NavigateLogSignin ==
    << <<"get", "ok">>, <<"print_url", "signin">>, <<"current_url", "ok">>,
       <<"input", "ok">>, <<"get", "ok">> >>

\* C3: when the URL landed on after the first navigation contains
\* "signin", the navigate step is: load, read the URL, block for the
\* operator's input, load the target once more; an operation that raises
\* ends it; the bulk-select step starts only after the input and the one
\* re-navigation, and no step starts while the program is blocked.
C3_SigninBlocksThenRenavigatesOnce ==
    /\ navCount <= 2
    /\ Len(steps) >= 2 => navCount = 2
    /\ pc = "login_input" => steps = <<"navigate">>
    /\ (steps = <<"navigate">> /\ Len(log) >= 2
            /\ log[2] = <<"print_url", "signin">>) =>
        /\ Len(log) <= Len(NavigateLogSignin)
        /\ \A i \in 1..Len(log) :
            \/ log[i] = NavigateLogSignin[i]
            \/ /\ i = Len(log)
               /\ log[i] = <<NavigateLogSignin[i][1], "raised">>
               /\ pc \in {"finally", "done"}
        /\ navCount = Cardinality({i \in 1..Len(log) : log[i] = <<"get", "ok">>})
        /\ pc = "sel_wait_present" => log = NavigateLogSignin
        /\ pc = "nav2" => Len(log) = 4

C3_Witness ==
    /\ pc = "sel_wait_present"
    /\ log = NavigateLogSignin
    /\ navCount = 2

InspectLog ==
    << <<"checkbox_present", "ok">>, <<"checkbox_enabled", "ok">>,
       <<"find_scroll", "ok">>, <<"inspect", "ok">> >>

\* C4: when select_all_orders_on_page inspects a checkbox that is present,
\* enabled and checked, the function returns at once: the inspection is its
\* last operation, no click and no script has run, no event was dispatched
\* and the checkbox is still checked.
C4_AlreadyCheckedNoInteraction ==
    (steps # <<>> /\ LastOf(steps) = "bulk-select" /\ log = InspectLog
        /\ checked) =>
        /\ pc = "print_state"
        /\ LastOf(stepsDone) = "bulk-select"
        /\ inputEvents = 0
        /\ changeEvents = 0
        /\ fallbacks = {}

C4_Witness ==
    /\ pc = "print_state"
    /\ log = InspectLog
    /\ checked
    /\ LastOf(stepsDone) = "bulk-select"

\* C5: when select_all_orders_on_page ends by the forced state assignment
\* (every earlier strategy left the checkbox unchecked or raised), the
\* checkbox is checked and the 'input' and the 'change' events were each
\* dispatched exactly once; this stays so for the rest of the run.
C5_ForceCheckLastResort ==
    /\ (pc = "print_state" /\ LastOf(log) = <<"force_check", "ok">>) =>
        (checked /\ inputEvents = 1 /\ changeEvents = 1)
    /\ ("force_check" \in fallbacks /\ "bulk-select" \in Range(stepsDone)) =>
        (checked /\ inputEvents = 1 /\ changeEvents = 1)

C5_Witness ==
    /\ pc = "print_state"
    /\ log = InspectLog \o
         << <<"find_labels", "ok">>, <<"label_click", "ok">>, Unselected,
            <<"find", "ok">>, <<"pointer_click", "ok">>, Unselected,
            <<"find", "ok">>, <<"js_click", "raised">>,
            <<"find", "ok">>, <<"force_check", "ok">> >>
    /\ checked
    /\ inputEvents = 1
    /\ changeEvents = 1

\* The menu step reached the wait for the 'Get shipping label' item.
ItemLocated ==
    \/ pc = "item_wait"
    \/ \E i \in 1..Len(log) : log[i][1] = "item_clickable"
    \/ "menu" \in Range(stepsDone)

\* C6 as stated: after a timeout of the expanded-state wait the trigger is
\* looked up a second time and the step continues to locating and clicking
\* the menu item.
C6_TimeoutAlwaysContinues ==
    ("expanded" \in timedOut /\ pc # "menu_reacquire") =>
        ("reacquire" \in fallbacks /\ ItemLocated)

\* C6 as amended: after a timeout of the expanded-state wait the timeout is
\* not propagated and the trigger is looked up a second time; when that
\* lookup returns the step continues to locating the menu item, and when it
\* raises, that exception ends the program.
C6_TimeoutReacquires ==
    ("expanded" \in timedOut /\ pc # "menu_reacquire") =>
        /\ "reacquire" \in fallbacks
        /\ \/ ItemLocated
           \/ /\ LastOf(log) = <<"find_trigger", "raised">>
              /\ pc \in {"finally", "done"}
              /\ exc = "WebDriverException"

C6_Witness ==
    /\ "expanded" \in timedOut
    /\ "reacquire" \in fallbacks
    /\ pc = "conf_wait"
    /\ LastOf(log) = <<"item_click", "ok">>

\* C7: a run in which nothing was redirected, no attempt failed and every
\* wait was satisfied ends normally, with the session quit after the
\* operator's confirmation, without a programmatic click, a forced state
\* assignment or a re-acquisition, and with the five steps in their order.
C7_HappyPathNoFallback ==
    (pc = "done" /\ clean) =>
        /\ fallbacks = {}
        /\ steps = StepNames
        /\ stepsDone = SubSeq(StepNames, 1, 4)
        /\ inputEvents = 0
        /\ timedOut = {}
        /\ exc = "none"
        /\ answered
        /\ session = "quit"

C7_Witness ==
    /\ pc = "done"
    /\ clean
    /\ steps = StepNames

\* C8: when one of the required waits (checkbox present, checkbox enabled,
\* trigger clickable, item clickable, confirm clickable) times out, the
\* wait is the last operation of the run: its step does nothing more, no
\* later step starts, the final prompt is not shown, TimeoutException
\* leaves the try block and the session is quit.
C8_TimeoutsAreFatal ==
    \A w \in FatalWaits :
        w \in timedOut =>
            /\ pc \in {"finally", "done"}
            /\ exc = "TimeoutException"
            /\ LastOf(log) = <<w, "timeout">>
            /\ "terminate" \notin Range(steps)
            /\ ~answered
            /\ pc = "done" => session = "quit"

C8_Witness ==
    /\ "item_clickable" \in timedOut
    /\ pc = "done"
    /\ session = "quit"
    /\ steps = SubSeq(StepNames, 1, 3)

C10_KillsOnlyProfileChrome ==
    \A i \in 1..Len(procs) :
        procs[i].outcome = "killed" => BoundTo(procs[i], ProfileDir)

FoundLabel == <<"find_labels", "ok">>

\* The ways strategy (a) can end without a verified success: no label, the
\* click raised, the re-query said unchecked, the re-query raised.
LabelFails ==
    { << <<"find_no_label", "ok">> >>,
      <<FoundLabel, <<"label_click", "raised">> >>,
      <<FoundLabel, <<"label_click", "ok">>, Unselected>>,
      <<FoundLabel, <<"label_click", "ok">>, <<"is_selected", "raised">> >> }

LabelWins == { <<FoundLabel, <<"label_click", "ok">>, Selected>> }

\* The same for strategies (b) and (c), whose lookup is part of the attempt.
ClickFails(op) ==
    { << <<"find", "raised">> >>,
      << <<"find", "ok">>, <<op, "raised">> >>,
      << <<"find", "ok">>, <<op, "ok">>, Unselected>>,
      << <<"find", "ok">>, <<op, "ok">>, <<"is_selected", "raised">> >> }

ClickWins(op) == { << <<"find", "ok">>, <<op, "ok">>, Selected>> }

ForceUnverified == << <<"find", "ok">>, <<"force_check", "ok">> >>

ForceVerified == ForceUnverified \o <<Selected>>

\* The operation sequences of a cascade that runs (a), (b), (c), (d) in
\* this order, verifies (a)-(c) by a re-query, stops at the first verified
\* success and ends strategy (d) by forceBlock.
CascadeLogs(forceBlock) ==
    {InspectLog \o a : a \in LabelWins}
    \cup {InspectLog \o a \o b :
            a \in LabelFails, b \in ClickWins("pointer_click")}
    \cup {InspectLog \o a \o b \o c :
            a \in LabelFails, b \in ClickFails("pointer_click"),
            c \in ClickWins("js_click")}
    \cup {InspectLog \o a \o b \o c \o forceBlock :
            a \in LabelFails, b \in ClickFails("pointer_click"),
            c \in ClickFails("js_click")}

\* The sequences a cascade of `valid` has performed before its last
\* operation.
Unfinished(valid) ==
    UNION { {SubSeq(v, 1, k) : k \in 0..(Len(v) - 1)} : v \in valid }

\* The cascades of the source (lines 88-117) and those of the statement.
SourceCascades ==
    [whole |-> CascadeLogs(ForceUnverified),
     part |-> Unfinished(CascadeLogs(ForceUnverified))]

StatedCascades ==
    [whole |-> CascadeLogs(ForceVerified),
     part |-> Unfinished(CascadeLogs(ForceVerified))]

CascadePcs ==
    {"sel_label_click", "sel_label_verify", "sel_input_find",
     "sel_input_click", "sel_input_verify", "sel_js_find", "sel_js_click",
     "sel_js_verify", "sel_force_find", "sel_force"}

\* The bulk-select step found the checkbox unchecked and is in, or just
\* past, its cascade.
CascadeEntered ==
    /\ steps # <<>>
    /\ LastOf(steps) = "bulk-select"
    /\ Len(log) > Len(InspectLog)
    /\ LastOf(log)[1] # "print_state"

CascadeFollows(valid) ==
    /\ pc = "print_state" => log \in valid.whole
    /\ pc \in CascadePcs => log \in valid.part
    /\ pc \in {"finally", "done"} =>
        /\ LastOf(log)[2] = "raised"
        /\ SubSeq(log, 1, Len(log) - 1) \in valid.part

\* C11 as stated: the cascade attempts label click (when a label exists),
\* pointer click, programmatic click, forced assignment in this order; the
\* checked state is re-queried after each attempt, the forced assignment
\* included; the cascade stops at the first verified success and a strategy
\* runs only when every earlier one failed verification or raised.
C11_EveryAttemptVerified ==
    CascadeEntered => CascadeFollows(StatedCascades)

\* C11 as amended: the same order, the same stop at the first verified
\* success, a re-query after each of the label click, the pointer click and
\* the programmatic click that returned; the forced assignment is the last
\* operation of the function and is not followed by a re-query.
C11_CascadeOrderAndStop ==
    CascadeEntered => CascadeFollows(SourceCascades)

C11_Witness ==
    /\ pc = "print_state"
    /\ log = InspectLog \o
         << FoundLabel, <<"label_click", "ok">>, Unselected,
            <<"find", "ok">>, <<"pointer_click", "ok">>, Selected >>
    /\ "js_click" \notin fallbacks

\* Where the program goes on after an attempt that has a later strategy
\* raised.
NextStrategy ==
    [op \in {"label_click", "pointer_click", "js_click", "trigger_click",
             "item_click", "confirm_click"} |->
        CASE op = "label_click" -> "sel_input_find"
          [] op = "pointer_click" -> "sel_js_find"
          [] op = "js_click" -> "sel_force_find"
          [] op = "trigger_click" -> "menu_js_click"
          [] op = "item_click" -> "item_js_click"
          [] op = "confirm_click" -> "conf_js_click"]

\* The last strategy of each step.
LastStrategyOps ==
    {"force_check", "trigger_js_click", "item_js_click", "confirm_js_click"}

LastRaised(ops) ==
    /\ log # <<>>
    /\ LastOf(log)[2] = "raised"
    /\ LastOf(log)[1] \in ops

\* C12 as stated: an exception raised by an interaction attempt (a strategy
\* of the bulk-select cascade, a click or a programmatic click on the
\* trigger, the menu item or the confirm control) never ends the program:
\* the program goes on and no exception is propagating.
C12_AttemptFailuresNeverFatal ==
    LastRaised(DOMAIN NextStrategy \cup LastStrategyOps) =>
        (pc \notin {"finally", "done"} /\ exc = "none")

\* C12 as amended: an exception raised by an attempt that has a later
\* strategy (label click, pointer click, programmatic click of the cascade;
\* native click on the trigger, the menu item, the confirm control) is
\* swallowed and the next strategy follows; an exception raised by the last
\* strategy of a step (forced assignment; programmatic click on the
\* trigger, the menu item, the confirm control) propagates and ends the
\* program.
C12_IntermediateFailuresSwallowed ==
    /\ LastRaised(DOMAIN NextStrategy) =>
        (pc = NextStrategy[LastOf(log)[1]] /\ exc = "none")
    /\ LastRaised(LastStrategyOps) =>
        (pc \in {"finally", "done"} /\ exc = "WebDriverException")
    /\ \A i \in 1..(Len(log) - 1) :
        log[i][2] = "raised" =>
            log[i][1] \in DOMAIN NextStrategy \cup {"find", "is_selected"}

C12_Witness ==
    /\ pc = "done"
    /\ <<"pointer_click", "raised">> \in Range(log)
    /\ LastOf(log) = <<"force_check", "raised">>
    /\ exc = "WebDriverException"

\* The number of times operation op was performed in the current step.
Count(op) == Cardinality({i \in 1..Len(log) : log[i][1] = op})

\* For each control: its step, its native click, its programmatic click,
\* where the programmatic click is made and where the program is once the
\* control has been clicked.
Controls ==
    { [step |-> "menu", native |-> "trigger_click",
       js |-> "trigger_js_click", jsPc |-> "menu_js_click",
       after |-> "menu_wait_expanded"],
      [step |-> "menu", native |-> "item_click", js |-> "item_js_click",
       jsPc |-> "item_js_click", after |-> "conf_wait"],
      [step |-> "confirm", native |-> "confirm_click",
       js |-> "confirm_js_click", jsPc |-> "conf_js_click",
       after |-> "final_prompt"] }

\* C13: for the trigger, the menu item and the confirm control, the native
\* click is made once and first; a programmatic click on the control is
\* made exactly when the native click raised, right after it and once;
\* after a native click that returned there is none.
C13_ClickWithFallback ==
    \A c \in Controls :
        (steps # <<>> /\ LastOf(steps) = c.step) =>
            /\ pc = c.after => \E i \in 1..Len(log) : log[i][1] = c.native
            /\ \A i \in 1..Len(log) :
                /\ log[i][1] = c.js =>
                    /\ i > 1
                    /\ log[i - 1] = <<c.native, "raised">>
                    /\ \A j \in (i + 1)..Len(log) : log[j][1] # c.js
                /\ log[i][1] = c.native =>
                    /\ \A j \in (i + 1)..Len(log) : log[j][1] # c.native
                    /\ log[i][2] = "raised" =>
                        \/ i < Len(log) /\ log[i + 1][1] = c.js
                        \/ i = Len(log) /\ pc = c.jsPc
                    /\ log[i][2] = "ok" =>
                        /\ \A j \in 1..Len(log) : log[j][1] # c.js
                        /\ pc # c.jsPc

C13_Witness ==
    /\ pc = "final_prompt"
    /\ Len(log) >= 2
    /\ log[Len(log) - 1] = <<"confirm_click", "raised">>
    /\ LastOf(log) = <<"confirm_js_click", "ok">>
    /\ Count("confirm_click") = 1

\* proc.kill() was called on process p, whatever it gave.
KillAttempted(p) == p.outcome # "none"

\* The processes of an enumeration that lines 54-64 select.
KillTargets == {p \in ProcStates : MatchesProfile(p, ProfileDir)}

Selects(p) == [p EXCEPT !.outcome = "none"] \in KillTargets

\* C14: NoSuchProcess or AccessDenied on one process does not end the
\* loop: each process the loop has passed was killed exactly when it
\* matches, whatever the earlier ones gave; when the function returns and
\* while the browser is launched this holds of the whole enumeration;
\* neither exception is ever propagating, and main never leaves the
\* function before the end of the enumeration.
C14_KillLoopToleratesErrors ==
    /\ exc \notin {"NoSuchProcess", "AccessDenied"}
    /\ pc \notin {"start", "kill"} => idx = Len(procs) + 1
    /\ pc \in {"kill", "build", "resize", "crashed"} =>
        \A i \in 1..Len(procs) :
            /\ i < idx => (KillAttempted(procs[i]) <=> Selects(procs[i]))
            /\ i >= idx => ~KillAttempted(procs[i])

C14_Witness ==
    /\ session = "alive"
    /\ Len(procs) = 2
    /\ pc = "resize"
    /\ procs[1].outcome \in {"NoSuchProcess", "AccessDenied"}
    /\ procs[2].outcome = "killed"

\* The process of the program has ended.
Terminated == pc \in {"done", "crashed"}

\* C15 as stated: every execution ends by reaching the session quit: no
\* execution has ended without it.
C15_TerminatesByQuit == Terminated => session = "quit"

\* C15 as amended: every execution eventually ends; it ends by the session
\* quit when build_driver returned, and with the exception build_driver
\* raised, before any step and without a quit, otherwise.
C15_EventuallyTerminates ==
    /\ <>Terminated
    /\ [](pc = "done" => session = "quit")
    /\ [](pc = "crashed" => (steps = <<>> /\ session # "quit"))

C15_Witness ==
    /\ pc = "done"
    /\ session = "quit"
    /\ "expanded" \in timedOut
    /\ "confirm_clickable" \in timedOut

\* The landings that are authentication pages.
AuthLandings == {u \in LandedUrls : AuthPage(u)}

NavigateLogDirect ==
    << <<"get", "ok">>, <<"print_url", "orders">>, <<"current_url", "ok">>,
       <<"get", "ok">> >>

NavigateLogPrompted(kind) ==
    << <<"get", "ok">>, <<"print_url", kind>>, <<"current_url", "ok">>,
       <<"input", "ok">>, <<"get", "ok">> >>

\* C16: a run that reaches the bulk-select step has loaded the target URL
\* exactly twice; the operator was asked at most once, between the two loads
\* and exactly when the first landing was an authentication page; the second
\* load is the last operation before bulk-select (the URL is not read
\* again), and on a page that is still an authentication page bulk-select
\* ends at its first wait.
C16_RenavigationUnconditional ==
    /\ Len(steps) >= 2 => navCount = 2
    /\ Len(steps) = 1 =>
        \A i \in 1..Len(log) :
            log[i][1] = "input" =>
                /\ i = 4
                /\ log[1] = <<"get", "ok">>
                /\ log[2] \in {<<"print_url", "signin">>, <<"print_url", "login">>}
                /\ \A j \in 2..Len(log) : log[j][1] = "get" => j > i
    /\ pc = "sel_wait_present" =>
        log \in {NavigateLogDirect, NavigateLogPrompted("signin"),
                 NavigateLogPrompted("login")}
    /\ (Len(steps) = 2 /\ landed \in AuthLandings) =>
        /\ Len(log) = 1
        /\ log[1] \in {<<"checkbox_present", "timeout">>,
                        <<"checkbox_present", "raised">>}
        /\ pc \in {"finally", "done"}

C16_Witness ==
    /\ pc = "sel_wait_present"
    /\ log = NavigateLogPrompted("login")
    /\ navCount = 2
    /\ landed \in AuthLandings

===========================================================================
